---- MODULE Spec2Model ----
(***************************************************************************)
(* Model of the transcript chunker of src/utils.py                         *)
(* (chunk_transcript_segments and the token estimator it calls).           *)
(*                                                                         *)
(* A text is a sequence of atoms: " " is one whitespace character, every   *)
(* other atom is one word.  Times are in half seconds.                     *)
(***************************************************************************)
EXTENDS Integers, Sequences, FiniteSets, TLC

\* ------------------------------------------------------------------ bounds
MaxSegs == 3
MaxBudget == 2
\* format_timestamp is applied to every whole second of -MaxNegative .. MaxSeconds
MaxSeconds == 7300
MaxNegative == 10
\* process_chunks_for_content is given up to MaxChunks chunks, and the provider
\* answers a flashcards or quiz request with CardsPerReply items
MaxChunks == 2
CardsPerReply == 2

\* ------------------------------------------------------------------ texts
Space == " "

RECURSIVE LStrip(_)
LStrip(t) == IF t = <<>> THEN t
             ELSE IF Head(t) = Space THEN LStrip(Tail(t)) ELSE t

RECURSIVE RStrip(_)
RStrip(t) == IF t = <<>> THEN t
             ELSE IF t[Len(t)] = Space THEN RStrip(SubSeq(t, 1, Len(t) - 1)) ELSE t

\* str.strip(): leading and trailing whitespace removed
Strip(t) == RStrip(LStrip(t))

\* Python's `s in text` on strings: s occurs as a contiguous run of text
Contains(s, text) ==
    \E k \in 0 .. (Len(text) - Len(s)) : SubSeq(text, k + 1, k + Len(s)) = s

\* ------------------------------------------------------------------ token estimators
\* Number of tokens of one word.  The byte-pair vocabulary holds the word "a"
\* both bare and with its leading space; it holds the rare word "b" only with
\* its leading space, so that the bare form is split in three pieces.
WordTokens(w, spaced) == IF w = "b" /\ ~spaced THEN 3 ELSE 1

\* Last position of the run of whitespace that starts at position k
RECURSIVE RunEnd(_, _)
RunEnd(text, k) == IF k < Len(text) /\ text[k + 1] = Space THEN RunEnd(text, k + 1) ELSE k

\* len(encoding.encode(text)) from position k on.  The pre-tokenizer attaches
\* one leading space to the word that follows it; a run of whitespace is one
\* token, and gives up its last space to a following word.
RECURSIVE EncodeLen(_, _)
EncodeLen(text, k) ==
    IF k > Len(text) THEN 0
    ELSE IF text[k] # Space THEN WordTokens(text[k], FALSE) + EncodeLen(text, k + 1)
    ELSE IF k < Len(text) /\ text[k + 1] # Space
         THEN WordTokens(text[k + 1], TRUE) + EncodeLen(text, k + 2)
    ELSE LET e == RunEnd(text, k)
         IN  IF e < Len(text) THEN 1 + EncodeLen(text, e) ELSE 1

\* The test suite's sentences, each one atom, as the recognizer gives them
\* (with a leading space), and the token count the first test assigns to each.
Sentence(n) == <<Space, <<"S1", "S2", "S3", "S4", "S5">>[n]>>

token_counts == [n \in 1 .. 5 |-> <<10, 30, 5, 5, 25>>[n]]

RECURSIVE SumCounts(_, _)
SumCounts(text, n) ==
    IF n = 0 THEN 0
    ELSE (IF Contains(Sentence(n), text) THEN token_counts[n] ELSE 0) + SumCounts(text, n - 1)

\* estimate_token_count(text), under the estimator in force: the library's
\* encoder, or one of the two stand-ins the tests patch in.
estimate_token_count(est, text) ==
    CASE est = "tiktoken"   -> EncodeLen(text, 1)
      [] est = "mock_sum"   -> SumCounts(text, 5)
      [] est = "mock_const" -> 5

\* ------------------------------------------------------------------ inputs
SegmentTexts == { <<Space, "a">>, <<"a">>, <<"b">>, <<Space>> }

\* (start, end) of a segment; <<1, 0>> is a malformed span (end < start)
TimeSpans == { <<0, 0>>, <<1, 1>>, <<1, 0>> }

Segment(text, start, end) == [text |-> text, start |-> start, end |-> end]

SegmentValues == { Segment(t, sp[1], sp[2]) : t \in SegmentTexts, sp \in TimeSpans }

SegmentLists == UNION { [1 .. n -> SegmentValues] : n \in 0 .. MaxSegs }

MOCK_SEGMENTS ==
    << Segment(Sentence(1), 0, 4),   Segment(Sentence(2), 5, 14),
       Segment(Sentence(3), 15, 17), Segment(Sentence(4), 18, 20),
       Segment(Sentence(5), 21, 30) >>

\* ------------------------------------------------------------------ state
VARIABLES
    segments,                  \* argument: the transcript segments
    max_tokens_per_chunk,      \* argument: the token budget
    estimator,                 \* which estimate_token_count is in force
    pc,                        \* "start", "loop" or "done"
    i,                         \* index of the next segment of the for loop
    current_chunk_text,
    current_chunk_start_time,
    chunk_segments,            \* indices of the segments accumulated
    chunks,                    \* the chunks yielded so far
    covers,                    \* history: chunk_segments at each yield
    estimates,                 \* history: value returned by each estimator call
    error,                     \* exception raised, or "none"
    invocation,                \* 1, or 2 once the generator was called again
    first_chunks,              \* what the first invocation yielded
    seconds,                   \* format_timestamp's argument, in tenths of a second
    timestamp,                 \* format_timestamp's result, a sequence of characters
    content_types,             \* argument of process_chunks_for_content
    generated_content,         \* the dictionary it builds and returns
    type_index,                \* position of the inner loop in content_types
    events                     \* history: requests started and returned, progress reported

\* the state of process_chunks_for_content
processVars == << content_types, generated_content, type_index, events >>

\* the state outside one invocation of the chunker
otherVars == << invocation, first_chunks, seconds, timestamp, processVars >>

\* process_chunks_for_content is not running
IdleProcess ==
    /\ content_types = <<>>
    /\ generated_content = <<>>
    /\ type_index = 1
    /\ events = <<>>

vars == << segments, max_tokens_per_chunk, estimator, pc, i, current_chunk_text,
           current_chunk_start_time, chunk_segments, chunks, covers, estimates, error,
           otherVars >>

\* every segment has end >= start, and the starts never decrease
WellFormedTimes ==
    /\ \A k \in 1 .. Len(segments) : segments[k].end >= segments[k].start
    /\ \A k \in 1 .. Len(segments) - 1 : segments[k].start <= segments[k + 1].start

Init ==
    /\ \/ /\ segments \in SegmentLists
          /\ max_tokens_per_chunk \in 0 .. MaxBudget
          /\ estimator = "tiktoken"
       \/ /\ segments = MOCK_SEGMENTS
          /\ \E test \in { << "mock_sum", 40 >>, << "mock_const", 1000 >> } :
                 /\ estimator = test[1]
                 /\ max_tokens_per_chunk = test[2]
    /\ pc = "start"
    /\ i = 1
    /\ current_chunk_text = <<>>
    /\ current_chunk_start_time = 0
    /\ chunk_segments = <<>>
    /\ chunks = <<>>
    /\ covers = <<>>
    /\ estimates = <<>>
    /\ error = "none"
    /\ invocation = 1
    /\ first_chunks = <<>>
    /\ seconds = 0
    /\ timestamp = <<>>
    /\ IdleProcess

\* ------------------------------------------------------------------ the code's steps
\* (mutation) the guard against an empty input is missing
IsEmptyInput_Never(segs) == FALSE

\* `if not segments`
IsEmptyInput(segs) == segs = <<>>

\* potential_chunk_text = current_chunk_text + " " + segment_text
potential_chunk_text(cur, segment_text) == cur \o <<Space>> \o segment_text

\* (mutation) an estimate equal to the budget closes the chunk
OverBudget_OrEqual(count, budget) == count >= budget

\* estimate_token_count(potential_chunk_text) > max_tokens_per_chunk
OverBudget(count, budget) == count > budget

\* `if current_chunk_text`: a non-empty string is true
HasText(cur) == cur # <<>>

\* (mutation) the accumulated text is yielded untrimmed
Chunk_Untrimmed(text, start_time, segs) ==
    [ text |-> text,
      start_time |-> start_time,
      end_time |-> segments[segs[Len(segs)]].end ]

\* (mutation) the start time is reset to the segment being scanned before the
\* closed chunk is yielded
Chunk_StartOfScanned(text, start_time, segs) ==
    [ text |-> Strip(text),
      start_time |-> IF i <= Len(segments) THEN segments[i].start ELSE start_time,
      end_time |-> segments[segs[Len(segs)]].end ]

\* the dictionary that is yielded
Chunk(text, start_time, segs) ==
    [ text |-> Strip(text),
      start_time |-> start_time,
      end_time |-> segments[segs[Len(segs)]].end ]

\* (mutation) the new chunk's list keeps the segments of the chunk just closed
NewChunkSegments_Keep(k) == Append(chunk_segments, k)

\* chunk_segments = [segment]
NewChunkSegments(k) == << k >>

\* (mutation) the segment is added to the text but not recorded
AppendSegment_Forgotten(segs, k) == segs

\* chunk_segments.append(segment)
AppendSegment(segs, k) == Append(segs, k)

\* current_chunk_start_time = segment['start']
NewChunkStart(k) == segments[k].start

\* current_chunk_text = segment_text
NewChunkText(segment_text) == segment_text

\* a yield, with chunk_segments[-1] raising IndexError on an empty list
Yield(text, start_time, segs) ==
    IF segs = <<>>
    THEN /\ error' = "IndexError"
         /\ UNCHANGED << chunks, covers >>
    ELSE /\ chunks' = Append(chunks, Chunk(text, start_time, segs))
         /\ covers' = Append(covers, segs)
         /\ error' = error

Start ==
    /\ pc = "start"
    /\ IF IsEmptyInput(segments)
       THEN /\ pc' = "done"
            /\ UNCHANGED << current_chunk_start_time, error >>
       ELSE IF Len(segments) = 0
       THEN /\ pc' = "done"
            /\ error' = "IndexError"
            /\ UNCHANGED current_chunk_start_time
       ELSE /\ pc' = "loop"
            /\ current_chunk_start_time' = segments[1].start
            /\ UNCHANGED error
    /\ UNCHANGED << segments, max_tokens_per_chunk, estimator, i, current_chunk_text,
                    chunk_segments, chunks, covers, estimates, otherVars >>

\* one iteration of `for segment in segments`
Scan ==
    /\ pc = "loop"
    /\ i <= Len(segments)
    /\ LET segment_text == segments[i].text
           potential == potential_chunk_text(current_chunk_text, segment_text)
           count == estimate_token_count(estimator, potential)
       IN  /\ estimates' = Append(estimates, count)
           /\ IF OverBudget(count, max_tokens_per_chunk)
              THEN /\ IF HasText(current_chunk_text)
                      THEN Yield(current_chunk_text, current_chunk_start_time, chunk_segments)
                      ELSE UNCHANGED << chunks, covers, error >>
                   /\ current_chunk_text' = NewChunkText(segment_text)
                   /\ chunk_segments' = NewChunkSegments(i)
                   /\ current_chunk_start_time' = NewChunkStart(i)
              ELSE /\ current_chunk_text' = potential
                   /\ chunk_segments' = AppendSegment(chunk_segments, i)
                   /\ UNCHANGED << current_chunk_start_time, chunks, covers, error >>
    /\ IF error' = "none" THEN pc' = "loop" /\ i' = i + 1
                          ELSE pc' = "done" /\ i' = i
    /\ UNCHANGED << segments, max_tokens_per_chunk, estimator, otherVars >>

\* (mutation) the accumulation left after the loop is not yielded
FinalYield_Never(cur) == FALSE

\* after the loop: `if current_chunk_text: yield ...`
FinalYield(cur) == HasText(cur)

Flush ==
    /\ pc = "loop"
    /\ i > Len(segments)
    /\ IF FinalYield(current_chunk_text)
       THEN Yield(current_chunk_text, current_chunk_start_time, chunk_segments)
       ELSE UNCHANGED << chunks, covers, error >>
    /\ pc' = "done"
    /\ UNCHANGED << segments, max_tokens_per_chunk, estimator, i, current_chunk_text,
                    current_chunk_start_time, chunk_segments, estimates, otherVars >>

Next == Start \/ Scan \/ Flush

Spec == Init /\ [][Next]_vars

\* The runs over well-formed segments (end >= start, starts never decreasing),
\* driven to exhaustion: the generator's consumer (list(chunks) in
\* process_chunks_for_content) asks for the next chunk until there is none, so
\* a step that can be taken is eventually taken.
FairInit == Init /\ WellFormedTimes

FairSpec == FairInit /\ [][Next]_vars /\ WF_vars(Next)

\* ------------------------------------------------------------------ a second invocation
\* (mutation) the accumulated text lives on between calls (a module-level or
\* default-argument buffer instead of a local)
InitialText_Kept(left_over) == left_over

\* current_chunk_text = "" at the head of every call
InitialText(left_over) == <<>>

\* The caller invokes chunk_transcript_segments again with the same segments and
\* the same budget, and consumes the new generator: the function body starts
\* over with fresh locals.
Reinvoke ==
    /\ pc = "done"
    /\ invocation = 1
    /\ invocation' = 2
    /\ first_chunks' = chunks
    /\ pc' = "start"
    /\ i' = 1
    /\ current_chunk_text' = InitialText(current_chunk_text)
    /\ current_chunk_start_time' = 0
    /\ chunk_segments' = <<>>
    /\ chunks' = <<>>
    /\ covers' = <<>>
    /\ estimates' = <<>>
    /\ error' = "none"
    /\ UNCHANGED << segments, max_tokens_per_chunk, estimator, seconds, timestamp,
                    processVars >>

TwiceNext == Start \/ Scan \/ Flush \/ Reinvoke

TwiceSpec == Init /\ [][TwiceNext]_vars

\* ------------------------------------------------------------------ format_timestamp
DigitChar(d) == << "0", "1", "2", "3", "4", "5", "6", "7", "8", "9" >>[d + 1]

\* the decimal digits of n >= 0
RECURSIVE Decimal(_)
Decimal(n) == IF n < 10 THEN << DigitChar(n) >>
              ELSE Decimal(n \div 10) \o << DigitChar(n % 10) >>

\* f"{n:02d}": the decimal digits, zero-padded to a width of two at least
Format02d(n) == IF n < 10 THEN << "0" >> \o Decimal(n) ELSE Decimal(n)

\* int(seconds) for seconds >= 0, given in tenths: the fraction is cut off
IntOfTenths(tenths) == tenths \div 10

\* (mutation) the hour form is chosen from zero hours on
HasHours_FromZero(hours) == hours >= 0

\* `if hours > 0`
HasHours(hours) == hours > 0

format_timestamp(tenths) ==
    IF tenths < 0 THEN << "0", "0", ":", "0", "0" >>
    ELSE LET whole    == IntOfTenths(tenths)
             minutes0 == whole \div 60
             secs     == whole % 60
             hours    == minutes0 \div 60
             minutes  == minutes0 % 60
         IN  IF HasHours(hours)
             THEN Format02d(hours) \o << ":" >> \o Format02d(minutes) \o << ":" >> \o Format02d(secs)
             ELSE Format02d(minutes) \o << ":" >> \o Format02d(secs)

\* the arguments: every whole second of the range, and the tests' 35.6 s
SecondsValues == { 10 * w : w \in (0 - MaxNegative) .. MaxSeconds } \cup { 356 }

TimestampInit ==
    /\ seconds \in SecondsValues
    /\ timestamp = <<>>
    /\ pc = "format"
    /\ segments = <<>>
    /\ max_tokens_per_chunk = 0
    /\ estimator = "tiktoken"
    /\ i = 1
    /\ current_chunk_text = <<>>
    /\ current_chunk_start_time = 0
    /\ chunk_segments = <<>>
    /\ chunks = <<>>
    /\ covers = <<>>
    /\ estimates = <<>>
    /\ error = "none"
    /\ invocation = 1
    /\ first_chunks = <<>>
    /\ IdleProcess

\* one call of format_timestamp
FormatTimestamp ==
    /\ pc = "format"
    /\ timestamp' = format_timestamp(seconds)
    /\ pc' = "formatted"
    /\ UNCHANGED << segments, max_tokens_per_chunk, estimator, i, current_chunk_text,
                    current_chunk_start_time, chunk_segments, chunks, covers, estimates,
                    error, invocation, first_chunks, seconds, processVars >>

TimestampSpec == TimestampInit /\ [][FormatTimestamp]_vars

\* ------------------------------------------------------------------ process_chunks_for_content
ContentTypeNames == { "notes", "flashcards", "quiz" }

\* what the sidebar's multiselect can give: the selected types, each once, in
\* the order they were picked
ContentTypeLists ==
    { l \in UNION { [1 .. n -> ContentTypeNames] : n \in 0 .. Cardinality(ContentTypeNames) } :
        \A a, b \in 1 .. Len(l) : a # b => l[a] # l[b] }

\* the k-th chunk handed over, its times in tenths of a second
ProcessChunk(k) ==
    [ text |-> << "a" >>, start_time |-> 18000 * (k - 1), end_time |-> 18000 * k + 356 ]

ChunkLists == { [k \in 1 .. n |-> ProcessChunk(k)] : n \in 0 .. MaxChunks }

\* what a call of the provider can come to: a JSON object of the shape asked
\* for, an exception of the API call, or content json.loads cannot parse
Outcomes == { "ok", "api_error", "unparsable" }

\* json.loads(content) of a good answer to the request for chunk c
ParsedReply(c, content_type) ==
    IF content_type = "notes"
    THEN [ title |-> << "notes", c >> ]
    ELSE [ t \in { content_type } |-> [ j \in 1 .. CardsPerReply |-> << content_type, c, j >> ] ]

\* (mutation) the except branch returns a dictionary describing the error
FailedResult_ErrorDict(content_type) == [ error |-> << content_type >> ]

\* `except Exception: ... return {}`
FailedResult(content_type) == << >>

\* generate_content_for_chunk for a valid content type
generate_content_for_chunk(c, content_type, outcome) ==
    IF outcome = "ok" THEN ParsedReply(c, content_type) ELSE FailedResult(content_type)

\* f"{format_timestamp(chunk['start_time'])} - {format_timestamp(chunk['end_time'])}"
NoteTimestamp(chunk) ==
    format_timestamp(chunk.start_time) \o << " ", "-", " " >> \o format_timestamp(chunk.end_time)

\* the `if result:` block: generated_content after one result
Collected(content, chunk, content_type, result) ==
    IF DOMAIN result = {} THEN content
    ELSE IF content_type = "notes"
         THEN [ content EXCEPT !["notes"] =
                    Append(@, [ timestamp |-> NoteTimestamp(chunk) ] @@ result) ]
    ELSE IF content_type \in { "flashcards", "quiz" }
         THEN IF content_type \in DOMAIN result
              THEN [ content EXCEPT ![content_type] = @ \o result[content_type] ]
              ELSE content
    ELSE content

\* (mutation) the progress is computed from the index, without the + 1
ProgressValue_IndexOnly(k, n) == << "progress", k - 1, n >>

\* progress_bar.progress((i + 1) / len(chunk_list)) for the k-th chunk of n,
\* the fraction kept as numerator and denominator
ProgressValue(k, n) == << "progress", k, n >>

ProcessInit ==
    /\ chunks \in ChunkLists
    /\ content_types \in ContentTypeLists
    /\ generated_content = <<>>
    /\ type_index = 1
    /\ events = <<>>
    /\ pc = "process"
    /\ i = 1
    /\ segments = <<>>
    /\ max_tokens_per_chunk = 0
    /\ estimator = "tiktoken"
    /\ current_chunk_text = <<>>
    /\ current_chunk_start_time = 0
    /\ chunk_segments = <<>>
    /\ covers = <<>>
    /\ estimates = <<>>
    /\ error = "none"
    /\ invocation = 1
    /\ first_chunks = <<>>
    /\ seconds = 0
    /\ timestamp = <<>>

processFrame == << segments, max_tokens_per_chunk, estimator, current_chunk_text,
                   current_chunk_start_time, chunk_segments, chunks, covers, estimates,
                   error, invocation, first_chunks, seconds, timestamp, content_types >>

\* the empty lists, chunk_list = list(chunks) and st.progress(0)
ProcessStart ==
    /\ pc = "process"
    /\ generated_content' = [ t \in { content_types[k] : k \in 1 .. Len(content_types) } |-> <<>> ]
    /\ events' = << << "progress", 0, 1 >> >>
    /\ i' = 1
    /\ type_index' = 1
    /\ pc' = "chunk"
    /\ UNCHANGED processFrame

\* generate_content_for_chunk is called: the request goes to the provider
IssueRequest ==
    /\ pc = "chunk"
    /\ i <= Len(chunks)
    /\ type_index <= Len(content_types)
    /\ events' = Append(events, << "start", i, content_types[type_index] >>)
    /\ pc' = "awaiting"
    /\ UNCHANGED << processFrame, i, type_index, generated_content >>

\* the call returns, and its result is added to generated_content
CompleteRequest ==
    /\ pc = "awaiting"
    /\ \E outcome \in Outcomes :
           LET content_type == content_types[type_index]
               result == generate_content_for_chunk(i, content_type, outcome)
           IN  /\ generated_content' = Collected(generated_content, chunks[i], content_type, result)
               /\ events' = Append(events, << "return", i, content_type, outcome >>)
    /\ type_index' = type_index + 1
    /\ pc' = "chunk"
    /\ UNCHANGED << processFrame, i >>

\* the inner loop is over: the progress bar is updated, the next chunk is taken
ReportProgress ==
    /\ pc = "chunk"
    /\ i <= Len(chunks)
    /\ type_index > Len(content_types)
    /\ events' = Append(events, ProgressValue(i, Len(chunks)))
    /\ i' = i + 1
    /\ type_index' = 1
    /\ UNCHANGED << processFrame, pc, generated_content >>

\* the outer loop is over: progress_bar.empty() and return generated_content
FinishProcess ==
    /\ pc = "chunk"
    /\ i > Len(chunks)
    /\ pc' = "returned"
    /\ UNCHANGED << processFrame, i, type_index, generated_content, events >>

ProcessNext == ProcessStart \/ IssueRequest \/ CompleteRequest \/ ReportProgress \/ FinishProcess

ProcessSpec == ProcessInit /\ [][ProcessNext]_vars

\* ------------------------------------------------------------------ vocabulary of the claims
Done == pc = "done"

NonEmptyInput == segments # <<>>

PositiveBudget == max_tokens_per_chunk > 0

RECURSIVE Flatten(_)
Flatten(ss) == IF ss = <<>> THEN <<>> ELSE Head(ss) \o Flatten(Tail(ss))

\* run is a non-empty run of consecutive segment indices
IsRun(run) ==
    /\ run # <<>>
    /\ \A j \in 1 .. Len(run) - 1 : run[j + 1] = run[j] + 1

\* s is the sequence 1, 2, ..., Len(s)
IsIota(s) == \A k \in 1 .. Len(s) : s[k] = k

\* the texts of the segments of run, joined by single spaces
RECURSIVE JoinTexts(_)
JoinTexts(run) ==
    IF Len(run) = 1 THEN segments[run[1]].text
    ELSE JoinTexts(SubSeq(run, 1, Len(run) - 1)) \o <<Space>> \o segments[run[Len(run)]].text

\* the emitted chunk that covers segment k (0 when none does)
ChunkOf(k) ==
    LET cs == { c \in 1 .. Len(covers) : \E j \in 1 .. Len(covers[c]) : covers[c][j] = k }
    IN  IF cs = {} THEN 0 ELSE CHOOSE c \in cs : TRUE

\* the number of emitted chunks that cover segment k
TimesCovered(k) ==
    Cardinality({ << c, j >> \in (1 .. Len(covers)) \X (1 .. Len(segments)) :
                    j <= Len(covers[c]) /\ covers[c][j] = k })

\* ------------------------------------------------------------------ C1
\* C1: for a non-empty input and a positive budget, the chunks emitted so far
\* and the accumulation together cover exactly the segments scanned so far, in
\* order: every chunk is a non-empty run of consecutive segments, the runs
\* follow one another without gap, overlap or reordering, and when the
\* generator is done the runs concatenate to the whole input.
C1_Coverage ==
    (NonEmptyInput /\ PositiveBudget) =>
        /\ error = "none"
        /\ \A c \in 1 .. Len(covers) : IsRun(covers[c])
        /\ IsIota(Flatten(covers) \o (IF Done THEN <<>> ELSE chunk_segments))
        /\ pc = "loop" => Len(Flatten(covers)) + Len(chunk_segments) = i - 1
        /\ Done => Len(Flatten(covers)) = Len(segments)
        /\ Len(chunks) = Len(covers)

\* a finished run with a positive budget that emitted a chunk of two segments
\* and then another chunk
C1_Witness ==
    /\ Done /\ PositiveBudget
    /\ Len(covers) >= 2
    /\ Len(covers[1]) >= 2

\* ------------------------------------------------------------------ C2
\* C2: every emitted chunk that covers two or more segments has a text whose
\* estimate is at most max_tokens_per_chunk.
C2_BudgetRespected ==
    \A c \in 1 .. Len(chunks) :
        Len(covers[c]) >= 2 =>
            estimate_token_count(estimator, chunks[c].text) <= max_tokens_per_chunk

\* ------------------------------------------------------------------ C3
\* segment k estimated on its own is above the budget
Oversized(k) == estimate_token_count(estimator, segments[k].text) > max_tokens_per_chunk

\* C3 (as claimed): when the generator is done, every segment whose own text
\* is estimated above the budget is covered by exactly one chunk, and that
\* chunk covers nothing else.
C3_OversizedAlone ==
    Done =>
        \A k \in 1 .. Len(segments) :
            Oversized(k) => /\ TimesCovered(k) = 1
                            /\ covers[ChunkOf(k)] = << k >>

\* the candidate texts segment k was part of (its own, and the next segment's)
\* were estimated no lower than its own text
NoLowerInContext(k) ==
    LET own == estimate_token_count(estimator, segments[k].text)
    IN  /\ estimates[k] >= own
        /\ k < Len(segments) => estimates[k + 1] >= own

\* C3 (amended): when the generator is done, every segment whose own text is
\* estimated above the budget is covered by exactly one chunk; that chunk
\* covers nothing else provided the candidate texts the segment was part of
\* were estimated no lower than the segment's own text.
C3_OversizedAloneInContext ==
    Done =>
        \A k \in 1 .. Len(segments) :
            Oversized(k) => /\ TimesCovered(k) = 1
                            /\ NoLowerInContext(k) => covers[ChunkOf(k)] = << k >>

\* a finished run of three segments whose middle one is oversized, estimated
\* no lower in context, and emitted alone
C3_Witness ==
    /\ Done /\ PositiveBudget
    /\ Len(segments) = 3
    /\ Oversized(2) /\ NoLowerInContext(2)
    /\ ~Oversized(1) /\ ~Oversized(3)
    /\ Len(covers) = 3 /\ covers[2] = << 2 >>

\* ------------------------------------------------------------------ C4
\* the step is one iteration of the loop
ScanStep == pc = "loop" /\ i <= Len(segments)

\* the candidate text of the segment about to be scanned, and its estimate
Candidate == potential_chunk_text(current_chunk_text, segments[i].text)

CandidateCount == estimate_token_count(estimator, Candidate)

\* in an iteration a chunk is closed exactly when the accumulation is
\* non-empty and the candidate is estimated strictly above the budget
CloseRule ==
    ScanStep => ( (Len(chunks') = Len(chunks) + 1)
                    <=> (current_chunk_text # <<>> /\ CandidateCount > max_tokens_per_chunk) )

\* an iteration whose candidate is estimated at most the budget keeps the
\* segment in the current chunk
KeepRule ==
    (ScanStep /\ CandidateCount <= max_tokens_per_chunk) =>
        /\ chunk_segments' = Append(chunk_segments, i)
        /\ current_chunk_text' = Candidate
        /\ chunks' = chunks

\* the first test: costs 10, 30, 5, 5, 25 and budget 40 give two chunks,
\* segments 1-2 (ending at 7.0 s) and segments 3-5 (starting at 7.5 s)
ScenarioResult ==
    (Done /\ estimator = "mock_sum" /\ segments = MOCK_SEGMENTS /\ max_tokens_per_chunk = 40) =>
        /\ covers = << << 1, 2 >>, << 3, 4, 5 >> >>
        /\ Len(chunks) = 2
        /\ chunks[1].end_time = 14
        /\ chunks[2].start_time = 15

\* no candidate estimated above the budget: one chunk, from the first
\* segment's start to the last segment's end
OneChunkResult ==
    (Done /\ NonEmptyInput /\ \A k \in 1 .. Len(estimates) : estimates[k] <= max_tokens_per_chunk) =>
        /\ Len(chunks) = 1
        /\ covers[1] = [k \in 1 .. Len(segments) |-> k]
        /\ chunks[1].start_time = segments[1].start
        /\ chunks[1].end_time = segments[Len(segments)].end

\* C4: a chunk is closed immediately before a segment exactly when the
\* accumulation is non-empty and the whole candidate text is estimated strictly
\* above the budget (an estimate equal to the budget keeps the segment); the
\* first test's input gives chunks 1-2 and 3-5; an input none of whose
\* candidates exceeds the budget gives exactly one chunk over the whole input.
C4_CloseExactlyWhenOver ==
    /\ [][CloseRule /\ KeepRule]_vars
    /\ [](ScenarioResult /\ OneChunkResult)

\* a finished run in which the second segment's candidate was estimated
\* exactly at the budget and the segment stayed in the first chunk, a later
\* candidate exceeded the budget and closed that chunk
C4_Witness ==
    /\ Done
    /\ Len(estimates) >= 3
    /\ estimates[2] = max_tokens_per_chunk
    /\ Len(covers) >= 2
    /\ covers[1] = << 1, 2 >>

\* ------------------------------------------------------------------ C5
\* C5: every emitted chunk has a non-empty text.
C5_ChunkTextNonEmpty ==
    \A c \in 1 .. Len(chunks) : chunks[c].text # <<>>

\* ------------------------------------------------------------------ C6
\* C6: every emitted chunk has the fields of the run of segments it covers:
\* the texts joined by single spaces and trimmed, the start of the first
\* segment, the end of the last.
C6_ChunkFields ==
    \A c \in 1 .. Len(chunks) :
        chunks[c] = [ text |-> Strip(JoinTexts(covers[c])),
                      start_time |-> segments[covers[c][1]].start,
                      end_time |-> segments[covers[c][Len(covers[c])]].end ]

\* a finished run whose first chunk (two segments, the first with a leading
\* space), a chunk started after a close, and the final chunk were emitted, with
\* times that tell the segments apart
C6_Witness ==
    /\ Done
    /\ Len(chunks) >= 2
    /\ Len(covers[1]) = 2
    /\ segments[1].text[1] = Space
    /\ segments[1].start # segments[Len(segments)].start
    /\ Len(Flatten(covers)) = Len(segments)

\* ------------------------------------------------------------------ C7
\* C7: for segments with end >= start and non-decreasing starts, every emitted
\* chunk has start_time <= end_time, and every chunk covers segments that come
\* after those of the chunk emitted before it.
C7_TimeOrder ==
    WellFormedTimes =>
        /\ \A c \in 1 .. Len(chunks) : chunks[c].start_time <= chunks[c].end_time
        /\ \A c \in 1 .. Len(covers) - 1 :
               covers[c][Len(covers[c])] < covers[c + 1][1]

\* a finished run over well-formed times that advance, with two chunks or more
C7_Witness ==
    /\ Done /\ WellFormedTimes
    /\ Len(chunks) >= 2
    /\ segments[1].end < segments[Len(segments)].start

\* ------------------------------------------------------------------ C8
\* C8: a call with max_tokens_per_chunk <= 0 is rejected with an
\* invalid-argument error before any segment is scanned, and emits no chunk.
C8_InvalidBudgetRejected ==
    (max_tokens_per_chunk <= 0 /\ pc # "start") =>
        /\ error = "ValueError"
        /\ estimates = <<>>
        /\ chunks = <<>>

\* ------------------------------------------------------------------ C9
\* C9: on an empty segment sequence the generator stops at once, whatever the
\* budget: no chunk, no error, no call of the estimator.
C9_EmptyInput ==
    segments = <<>> =>
        /\ pc \in {"start", "done"}
        /\ chunks = <<>>
        /\ error = "none"
        /\ estimates = <<>>

\* the generator has finished on an empty input
C9_Witness == segments = <<>> /\ Done

\* ------------------------------------------------------------------ C10
\* what holds of a finished run over a non-empty input: every segment scanned
\* once with one estimator call each, no error, and the last accumulation
\* emitted as the final chunk
FinishedWell ==
    /\ Done
    /\ error = "none"
    /\ i = Len(segments) + 1
    /\ Len(estimates) = Len(segments)
    /\ Len(chunks) >= 1
    /\ covers[Len(covers)] = chunk_segments
    /\ chunks[Len(chunks)].text = Strip(current_chunk_text)

\* C10: for a non-empty input and a positive budget the generator eventually
\* finishes, having scanned each segment exactly once (one estimator call per
\* segment) and emitted the last accumulation as the final chunk.
C10_Termination ==
    (NonEmptyInput /\ PositiveBudget) ~> FinishedWell

\* a finished run over a full-length input with a positive budget
C10_Witness ==
    /\ FinishedWell /\ PositiveBudget
    /\ Len(segments) >= 3
    /\ Len(chunks) >= 2

TwoDigits(n) == << DigitChar(n \div 10), DigitChar(n % 10) >>

\* the number a two-character field stands for
FieldValue(field) ==
    LET Value(ch) == CHOOSE d \in 0 .. 9 : DigitChar(d) = ch
    IN  10 * Value(field[1]) + Value(field[2])

\* the reference for a whole number of seconds w
ReferenceTimestamp(w) ==
    IF w < 0 THEN << "0", "0", ":", "0", "0" >>
    ELSE IF w < 3600
         THEN TwoDigits(w \div 60) \o << ":" >> \o TwoDigits(w % 60)
    ELSE TwoDigits(w \div 3600) \o << ":" >> \o TwoDigits((w % 3600) \div 60)
             \o << ":" >> \o TwoDigits(w % 60)

\* C12: for every whole number of seconds of the range, format_timestamp
\* returns the reference: "00:00" below zero, MM:SS below one hour, HH:MM:SS
\* from one hour on, every field two digits, SS (and MM in the hour form)
\* within 00 .. 59.
C12_FormatTimestamp ==
    (pc = "formatted" /\ seconds % 10 = 0) =>
        LET w == seconds \div 10
            n == Len(timestamp)
        IN  /\ timestamp = ReferenceTimestamp(w)
            /\ n = IF w >= 3600 THEN 8 ELSE 5
            /\ FieldValue(SubSeq(timestamp, n - 1, n)) \in 0 .. 59
            /\ w >= 3600 => FieldValue(SubSeq(timestamp, n - 4, n - 3)) \in 0 .. 59

\* format_timestamp has returned for 3661 s, an argument of the hour form
C12_Witness ==
    /\ pc = "formatted"
    /\ seconds = 36610
    /\ timestamp = << "0", "1", ":", "0", "1", ":", "0", "1" >>

\* ------------------------------------------------------------------ C13
\* an event without the outcome a return carries
EventShape(e) == IF e[1] = "return" THEN << "return", e[2], e[3] >> ELSE e

\* the events of chunk c from content type position k on: every request
\* started and returned, one type after the other, then the progress of c
RECURSIVE ChunkEvents(_, _)
ChunkEvents(c, k) ==
    IF k > Len(content_types) THEN << << "progress", c, Len(chunks) >> >>
    ELSE << << "start", c, content_types[k] >>, << "return", c, content_types[k] >> >>
             \o ChunkEvents(c, k + 1)

\* the events of the chunks from c on
RECURSIVE EventsFrom(_)
EventsFrom(c) == IF c > Len(chunks) THEN <<>> ELSE ChunkEvents(c, 1) \o EventsFrom(c + 1)

\* the whole run: the progress bar at zero, then chunk after chunk
ExpectedEvents == << << "progress", 0, 1 >> >> \o EventsFrom(1)

\* the positions of events of a kind
EventsOfKind(kind) == { e \in 1 .. Len(events) : events[e][1] = kind }

\* C13: the requests are issued one (chunk, content type) pair after the
\* other, chunks in the order given and the content types in the order of
\* content_types within a chunk, each started only when the one before has
\* returned; the progress is reported once after each chunk, increasing, and
\* is complete after the last chunk; at the end every pair was requested
\* exactly once.
C13_SequentialRequests ==
    pc \in { "chunk", "awaiting", "returned" } =>
        LET expected == ExpectedEvents
            starts   == EventsOfKind("start")
            reports  == EventsOfKind("progress")
        IN  /\ Len(events) <= Len(expected)
            /\ [ e \in 1 .. Len(events) |-> EventShape(events[e]) ]
                   = SubSeq(expected, 1, Len(events))
            /\ pc = "returned" => Len(events) = Len(expected)
            /\ \A e \in starts :
                   e > 1 /\ events[e - 1][1] \in { "return", "progress" }
            /\ \A a, b \in reports :
                   a < b => events[a][2] * events[b][3] < events[b][2] * events[a][3]
            /\ (pc = "returned" /\ chunks # <<>>) =>
                   events[Len(events)] = << "progress", Len(chunks), Len(chunks) >>
            /\ pc = "returned" =>
                   \A c \in 1 .. Len(chunks) : \A k \in 1 .. Len(content_types) :
                       Cardinality({ e \in starts :
                                       events[e] = << "start", c, content_types[k] >> }) = 1

\* process_chunks_for_content has returned after two chunks of two content
\* types or more
C13_Witness ==
    /\ pc = "returned"
    /\ Len(chunks) >= 2
    /\ Len(content_types) >= 2
    /\ Cardinality(EventsOfKind("start")) = Len(chunks) * Len(content_types)

\* ------------------------------------------------------------------ C14
\* the items a returned request contributes: one note carrying the chunk's
\* time range, or the cards of the answer, when the provider answered; nothing
\* when the call failed or its content could not be parsed
ItemsOf(e) ==
    IF e[4] # "ok" THEN <<>>
    ELSE IF e[3] = "notes"
         THEN << [ title |-> << "notes", e[2] >>,
                   timestamp |-> format_timestamp(chunks[e[2]].start_time)
                                   \o << " ", "-", " " >>
                                   \o format_timestamp(chunks[e[2]].end_time) ] >>
    ELSE [ j \in 1 .. CardsPerReply |-> << e[3], e[2], j >> ]

\* the items of the requests for content_type among the first n events
RECURSIVE ItemsUpTo(_, _)
ItemsUpTo(content_type, n) ==
    IF n = 0 THEN <<>>
    ELSE ItemsUpTo(content_type, n - 1)
           \o (IF events[n][1] = "return" /\ events[n][3] = content_type
               THEN ItemsOf(events[n]) ELSE <<>>)

\* C14: whatever requests failed, the collection holds, under every content
\* type, exactly the items of the requests that succeeded, in request order (a
\* failed request adds nothing and removes nothing), and by the end every
\* (chunk, content type) request was issued all the same.
C14_FailureIsolation ==
    pc \in { "chunk", "awaiting", "returned" } =>
        /\ DOMAIN generated_content = { content_types[k] : k \in 1 .. Len(content_types) }
        /\ \A t \in DOMAIN generated_content :
               generated_content[t] = ItemsUpTo(t, Len(events))
        /\ pc = "returned" =>
               Cardinality(EventsOfKind("return")) = Len(chunks) * Len(content_types)

\* process_chunks_for_content has returned after a failed notes request
\* and an unparsable flashcards answer for the first chunk, followed by
\* requests that succeeded
C14_Witness ==
    /\ pc = "returned"
    /\ Len(chunks) >= 2
    /\ \E a, b \in EventsOfKind("return") :
           /\ events[a][2] = 1 /\ events[a][3] = "notes" /\ events[a][4] = "api_error"
           /\ events[b][2] = 1 /\ events[b][3] = "flashcards" /\ events[b][4] = "unparsable"
    /\ "notes" \in DOMAIN generated_content /\ Len(generated_content["notes"]) = Len(chunks) - 1
    /\ "flashcards" \in DOMAIN generated_content /\ generated_content["flashcards"] # <<>>

====
